---- MODULE Spec2Model ----
(***************************************************************************)
(* Model of the array_ext crate: the Array<T> and ArrayN<T, N> traits as   *)
(* implemented for [T; N] in src/lib.rs, and the per-size map / zip of     *)
(* src/sized.rs.  Every method is a pure function of its arguments, so the *)
(* state is a record of the last call: which method ran, on which          *)
(* arguments, what it returned, which calls the caller's closure received  *)
(* (in order) and whether the call unwound with a panic.  from_iter is     *)
(* modelled one loop iteration at a time, as it runs against a caller's    *)
(* iterator that may never end.                                            *)
(***************************************************************************)
EXTENDS Integers, Sequences, FiniteSets, TLC

VARIABLES
    op,        \* the method of the last call, "none" before any call
    args,      \* the arguments of that call (self included)
    ret,       \* what the call returned (NoValue when it unwound)
    calls,     \* the arguments the caller's closure received, in call order
    panicked,  \* TRUE iff the call unwound with a panic
    pc,        \* "idle" before the call, "from_iter" while from_iter's loop is
               \* running, "returned" once the call is over
    iter,      \* from_iter: the caller's iterator
    slots,     \* from_iter: the array of Option<T> being filled
    idx,       \* from_iter: the next slot of the for loop
    nexts      \* from_iter: how many times iter.next() has been called

vars == <<op, args, ret, calls, panicked, pc, iter, slots, idx, nexts>>

(***************************************************************************)
(* Bounds of the model.                                                    *)
(***************************************************************************)
MaxLen == 3     \* array lengths N, M, S, P range over 0..MaxLen
MaxVal == 1     \* element values range over 0..MaxVal

Values == 0..MaxVal
Lens == 0..MaxLen

\* [T; n] for the element type Values
ArraysOfLen(n) == [1..n -> Values]
Arrays == UNION {ArraysOfLen(n) : n \in Lens}

(***************************************************************************)
(* Option<T>, references, indexing, unwrap.                                *)
(***************************************************************************)
None == [tag |-> "None"]
Some(v) == [tag |-> "Some", val |-> v]
IsSome(o) == o.tag = "Some"

NoValue == [tag |-> "NoValue"]

\* the outcome of an expression: a value, or a panic that unwinds the call
Ok(v) == [panicked |-> FALSE, val |-> v]
Panic == [panicked |-> TRUE, val |-> NoValue]

\* &self[i]: a reference to the slot at the zero-based position i
Ref(i) == [slot |-> i]
\* the element a reference into the array a points to
Deref(a, r) == a[r.slot + 1]

\* self[i] on an array: bounds-checked, panics when i is out of range
Index(a, i) == IF i < Len(a) THEN Ok(Ref(i)) ELSE Panic

\* Option::unwrap
Unwrap(o) == IF IsSome(o) THEN Ok(o.val) ELSE Panic

\* wraps the outcome of an indexing expression in Some(..)
SomeOf(r) == IF r.panicked THEN Panic ELSE Ok(Some(r.val))

(***************************************************************************)
(* Array<T> for [T; N]: the accessors.                                     *)
(***************************************************************************)
len(self) == Ok(Len(self))

is_empty(self) == Ok(Len(self) = 0)

first(self) == IF Len(self) > 0 THEN SomeOf(Index(self, 0)) ELSE Ok(None)

first_mut(self) == IF Len(self) > 0 THEN SomeOf(Index(self, 0)) ELSE Ok(None)

\* a slip in last: the first slot instead of the last
lastAsFirst(self) == IF Len(self) > 0 THEN SomeOf(Index(self, 0)) ELSE Ok(None)
last(self) == IF Len(self) > 0 THEN SomeOf(Index(self, Len(self) - 1)) ELSE Ok(None)

last_mut(self) == IF Len(self) > 0 THEN SomeOf(Index(self, Len(self) - 1)) ELSE Ok(None)

\* a slip in get: the bounds test left out
getUnchecked(self, index) == SomeOf(Index(self, index))
get(self, index) == IF index < Len(self) THEN SomeOf(Index(self, index)) ELSE Ok(None)

get_mut(self, index) == IF index < Len(self) THEN SomeOf(Index(self, index)) ELSE Ok(None)

as_slice(self) == Ok(self)

as_mut_slice(self) == Ok(self)

(***************************************************************************)
(* Iterators: array::IntoIter (double-ended), its Rev adaptor, and the     *)
(* unbounded range `start..` that the tests feed to from_iter.             *)
(***************************************************************************)
IntoIter(a) == [kind |-> "into_iter", data |-> a, front |-> 0, back |-> 0]
Rev(it) == [kind |-> "rev", inner |-> it]
RangeFrom(start) == [kind |-> "range_from", start |-> start]

\* how many items an array iterator still holds
Remaining(it) == Len(it.data) - it.front - it.back

\* IntoIter::next: the front item
ArrayNext(it) ==
    IF Remaining(it) > 0
    THEN [item |-> Some(it.data[it.front + 1]), it |-> [it EXCEPT !.front = @ + 1]]
    ELSE [item |-> None, it |-> it]

\* IntoIter::next_back: the back item
ArrayNextBack(it) ==
    IF Remaining(it) > 0
    THEN [item |-> Some(it.data[Len(it.data) - it.back]), it |-> [it EXCEPT !.back = @ + 1]]
    ELSE [item |-> None, it |-> it]

\* Iterator::next for each kind of iterator
IterNext(it) ==
    CASE it.kind = "into_iter" -> ArrayNext(it)
      [] it.kind = "rev" ->
            LET nb == ArrayNextBack(it.inner)
            IN [item |-> nb.item, it |-> Rev(nb.it)]
      [] it.kind = "range_from" ->
            [item |-> Some(it.start), it |-> RangeFrom(it.start + 1)]

(***************************************************************************)
(* The caller's closures.  A closure is a value naming what it computes;   *)
(* every call is appended to the call log with the arguments it received.  *)
(***************************************************************************)
\* FnMut(T) -> T for map_: every function on the element values
Transforms == [Values -> Values]
Identity == [v \in Values |-> v]

\* FnMut(A, T) -> A for foldl / foldr: string push (tests.rs), subtraction, addition
Combines == {"push", "sub", "add"}
Combine(f, acc, v) ==
    CASE f = "push" -> Append(acc, v)
      [] f = "sub" -> acc - v
      [] f = "add" -> acc + v
Seeds(f) == IF f = "push" THEN {<<>>, <<MaxVal>>} ELSE {0, 1}

\* FnMut(usize) -> T for resize_with; resize passes |_| elem.clone()
Clone(elem) == [kind |-> "clone", elem |-> elem]
Generators == {[kind |-> "index"], [kind |-> "succ"]}
Generate(g, i) ==
    CASE g.kind = "index" -> i
      [] g.kind = "succ" -> i + 1
      [] g.kind = "clone" -> g.elem

\* FnMut(T, U, ..) -> Output for the zips: the tuple of the arguments, or their sum
Zippers == {"tuple", "add"}
RECURSIVE SumSeq(_)
SumSeq(s) == IF s = <<>> THEN 0 ELSE Head(s) + SumSeq(Tail(s))
Zipper(f, xs) == IF f = "tuple" THEN xs ELSE SumSeq(xs)

(***************************************************************************)
(* The closures the library builds and hands to std::array::from_fn and to *)
(* <[T; N]>::map.  A closure is a record of what it captured; calling it   *)
(* on x with the state env it captured by mutable reference returns        *)
(* [panicked, val, env].                                                   *)
(***************************************************************************)
\* one call f(x) of the caller's transform
CallTransform(f, x, env) ==
    [panicked |-> FALSE, val |-> f[x], env |-> [env EXCEPT !.calls = Append(@, <<x>>)]]

\* it.next().unwrap(): the item, or the panic, and the iterator afterwards
Unwrapped(u, it) == [panicked |-> u.panicked, val |-> u.val, it |-> it]
UnwrapItem(nx) == Unwrapped(Unwrap(nx.item), nx.it)
NextUnwrap(it) == UnwrapItem(IterNext(it))

\* the closure's outcome once its captured iterator a (or b) has been advanced
StoreA(env, t) == [panicked |-> t.panicked, val |-> t.val, env |-> [env EXCEPT !.a = t.it]]
StoreB(env, t) == [panicked |-> t.panicked, val |-> t.val, env |-> [env EXCEPT !.b = t.it]]

\* one call f(i) of the caller's generator
CallGenerator(f, i, env) ==
    [panicked |-> FALSE, val |-> Generate(f, i),
     env |-> [env EXCEPT !.calls = Append(@, <<i>>)]]

\* a slip in the closure: i <= N in place of i < N
ResizeClosureOffByOne(n, f, i, env) ==
    IF i <= n THEN StoreA(env, NextUnwrap(env.a)) ELSE CallGenerator(f, i, env)

\* a slip in the closure: the generator given the position among the new
\* elements, f(i - N), in place of the position in the new array
ResizeClosureRelative(n, f, i, env) ==
    IF i < n THEN StoreA(env, NextUnwrap(env.a)) ELSE CallGenerator(f, i - n, env)

\* resize_with: |i| if i < N { a.next().unwrap() } else { f(i) }
ResizeClosure(n, f, i, env) ==
    IF i < n THEN StoreA(env, NextUnwrap(env.a)) ELSE CallGenerator(f, i, env)

\* it1.next().unwrap(), it2.next().unwrap(), ..: evaluated left to right, up to
\* the first that panics
Took(p, k, t) ==
    [panicked |-> t.panicked,
     xs |-> IF t.panicked THEN p.xs ELSE Append(p.xs, t.val),
     its |-> [p.its EXCEPT ![k] = t.it]]
TakeFrom(p, k) == IF p.panicked THEN p ELSE Took(p, k, NextUnwrap(p.its[k]))
NextUnwrapAll(its) ==
    LET step[k \in 0..Len(its)] ==
            IF k = 0 THEN [panicked |-> FALSE, xs |-> <<>>, its |-> its]
            ELSE TakeFrom(step[k - 1], k)
    IN step[Len(its)]

\* one call f(x0, x1, ..) of the caller's zip closure
CallZipper(f, xs, its, env) ==
    [panicked |-> FALSE, val |-> Zipper(f, xs),
     env |-> [its |-> its, calls |-> Append(env.calls, xs)]]

\* the zips: |x0| f(x0, it1.next().unwrap(), ..)
ZipCall(f, x0, env, r) ==
    IF r.panicked
    THEN [panicked |-> TRUE, val |-> NoValue, env |-> [env EXCEPT !.its = r.its]]
    ELSE CallZipper(f, <<x0>> \o r.xs, r.its, env)
ZipClosure(f, x0, env) == ZipCall(f, x0, env, NextUnwrapAll(env.its))

\* src/sized.rs, map: the element f(self[$idx]) of the array literal
SizedMapAt(self, f, x, env) ==
    IF x.panicked THEN [panicked |-> TRUE, val |-> NoValue, env |-> env]
    ELSE CallTransform(f, Deref(self, x.val), env)
SizedMapElem(self, f, i, env) == SizedMapAt(self, f, Index(self, i), env)

\* src/sized.rs, zip: the element f(self[$idx], other[$idx]) of the array literal
SizedZipAt(self, other, f, x, y, env) ==
    IF x.panicked \/ y.panicked THEN [panicked |-> TRUE, val |-> NoValue, env |-> env]
    ELSE [panicked |-> FALSE,
          val |-> Zipper(f, <<Deref(self, x.val), Deref(other, y.val)>>),
          env |-> [env EXCEPT !.calls =
                        Append(@, <<Deref(self, x.val), Deref(other, y.val)>>)]]
SizedZipElem(self, other, f, i, env) ==
    SizedZipAt(self, other, f, Index(self, i), Index(other, i), env)

\* a slip in the closure: i <= N in place of i < N
ConcatClosureOffByOne(n, i, env) ==
    IF i <= n THEN StoreA(env, NextUnwrap(env.a)) ELSE StoreB(env, NextUnwrap(env.b))

\* concat: |i| if i < N { a.next() } else { b.next() }.unwrap()
ConcatClosure(n, i, env) ==
    IF i < n THEN StoreA(env, NextUnwrap(env.a)) ELSE StoreB(env, NextUnwrap(env.b))

\* split: |_| a.next().unwrap()
SplitClosure(u, env) == StoreA(env, NextUnwrap(env.a))

\* from_iter: |_| None
NoneClosure(i, env) == [panicked |-> FALSE, val |-> None, env |-> env]

\* from_iter: Option::unwrap as the closure of arr.map
Unwrapping(u, env) == [panicked |-> u.panicked, val |-> u.val, env |-> env]
UnwrapClosure(o, env) == Unwrapping(Unwrap(o), env)

\* the call cb(x) of a closure
CallClosure(cb, x, env) ==
    CASE cb.kind = "transform" -> CallTransform(cb.f, x, env)
      [] cb.kind = "resize" -> ResizeClosure(cb.n, cb.f, x, env)
      [] cb.kind = "zip" -> ZipClosure(cb.f, x, env)
      [] cb.kind = "sized_map" -> SizedMapElem(cb.self, cb.f, x, env)
      [] cb.kind = "sized_zip" -> SizedZipElem(cb.self, cb.other, cb.f, x, env)
      [] cb.kind = "concat" -> ConcatClosure(cb.n, x, env)
      [] cb.kind = "split" -> SplitClosure(x, env)
      [] cb.kind = "none" -> NoneClosure(x, env)
      [] cb.kind = "unwrap" -> UnwrapClosure(x, env)

(***************************************************************************)
(* std::array::from_fn and <[T; N]>::map: both call the closure once per   *)
(* position, in ascending order, and unwind as soon as a call panics.      *)
(***************************************************************************)
\* the array so far, with the outcome r of the closure's call for the next place
Push(p, r) ==
    IF r.panicked
    THEN [panicked |-> TRUE, val |-> NoValue, env |-> r.env]
    ELSE [panicked |-> FALSE, val |-> Append(p.val, r.val), env |-> r.env]
Place(p, cb, x) == IF p.panicked THEN p ELSE Push(p, CallClosure(cb, x, p.env))

\* from_fn(cb): [cb(0), cb(1), .., cb(n-1)]
ArrayFromFn(n, cb, env0) ==
    LET run[i \in 0..n] ==
            IF i = 0 THEN [panicked |-> FALSE, val |-> <<>>, env |-> env0]
            ELSE Place(run[i - 1], cb, i - 1)
    IN run[n]

\* a.map(cb): [cb(a[0]), cb(a[1]), .., cb(a[n-1])]
ArrayMap(a, cb, env0) ==
    LET run[i \in 0..Len(a)] ==
            IF i = 0 THEN [panicked |-> FALSE, val |-> <<>>, env |-> env0]
            ELSE Place(run[i - 1], cb, a[i])
    IN run[Len(a)]

\* the result of a call: the value (or the panic) and the closure's call log
Result(r) == [panicked |-> r.panicked, val |-> r.val, calls |-> r.env.calls]
Pure(r) == [panicked |-> r.panicked, val |-> r.val, calls |-> <<>>]

(***************************************************************************)
(* Array<T> for [T; N]: map_, foldl, foldr, resize, resize_with.           *)
(***************************************************************************)
\* a slip in map_: the elements taken from the back
map_FromBack(self, f) ==
    Result(ArrayMap([i \in 1..Len(self) |-> self[Len(self) + 1 - i]],
                    [kind |-> "transform", f |-> f], [calls |-> <<>>]))

map_(self, f) == Result(ArrayMap(self, [kind |-> "transform", f |-> f], [calls |-> <<>>]))

\* for val in it { acc = f(acc, val); } acc
RECURSIVE ForFold(_, _, _, _)
ForBody(nx, acc, f, log) ==
    IF IsSome(nx.item)
    THEN ForFold(nx.it, Combine(f, acc, nx.item.val), f, Append(log, <<acc, nx.item.val>>))
    ELSE [panicked |-> FALSE, val |-> acc, calls |-> log]
ForFold(it, acc, f, log) == ForBody(IterNext(it), acc, f, log)

foldl(self, acc, f) == ForFold(IntoIter(self), acc, f, <<>>)

\* a slip in foldr: the .rev() left out
foldrForward(self, acc, f) == ForFold(IntoIter(self), acc, f, <<>>)

foldr(self, acc, f) == ForFold(Rev(IntoIter(self)), acc, f, <<>>)

resize_with(self, S, f) ==
    Result(ArrayFromFn(S, [kind |-> "resize", n |-> Len(self), f |-> f],
                       [a |-> IntoIter(self), calls |-> <<>>]))

resize(self, S, elem) == resize_with(self, S, Clone(elem))

(***************************************************************************)
(* ArrayN<T, N> for [T; N]: the zips.                                      *)
(***************************************************************************)
\* self.map(|x0| f(x0, ..)) over the iterators of the other arrays
ZipMap(self, its, f) ==
    Result(ArrayMap(self, [kind |-> "zip", f |-> f], [its |-> its, calls |-> <<>>]))

\* a slip in zip_with: the other array walked from its back
zip_withFromBack(self, other, f) == ZipMap(self, <<Rev(IntoIter(other))>>, f)

zip_with(self, other, f) == ZipMap(self, <<IntoIter(other)>>, f)

zip3_with(self, other1, other2, f) ==
    ZipMap(self, <<IntoIter(other1), IntoIter(other2)>>, f)

zip4_with(self, other1, other2, other3, f) ==
    ZipMap(self, <<IntoIter(other1), IntoIter(other2), IntoIter(other3)>>, f)

zip5_with(self, other1, other2, other3, other4, f) ==
    ZipMap(self, <<IntoIter(other1), IntoIter(other2), IntoIter(other3), IntoIter(other4)>>, f)

(***************************************************************************)
(* src/sized.rs: ArrayK::map and ArrayK::zip, the array literal            *)
(* [f(self[0]), f(self[1]), ..] whose elements are evaluated in order.     *)
(***************************************************************************)
sized_map(self, f) ==
    Result(ArrayFromFn(Len(self), [kind |-> "sized_map", self |-> self, f |-> f],
                       [calls |-> <<>>]))

sized_zip(self, other, f) ==
    Result(ArrayFromFn(Len(self),
                       [kind |-> "sized_zip", self |-> self, other |-> other, f |-> f],
                       [calls |-> <<>>]))

(***************************************************************************)
(* ArrayN<T, N> for [T; N]: concat and split (feature "nightly").          *)
(***************************************************************************)
concat(self, other) ==
    Pure(ArrayFromFn(Len(self) + Len(other), [kind |-> "concat", n |-> Len(self)],
                     [a |-> IntoIter(self), b |-> IntoIter(other)]))

\* the length N - P of the type [T; N - P]: a usize constant expression, whose
\* overflow is an error of the build and not a value
ConstSub(n, p) == IF p <= n THEN [overflow |-> FALSE, val |-> n - p] ELSE [overflow |-> TRUE]

\* [(); k]
Units(k) == [i \in 1..k |-> "unit"]

\* a call the build rejects: split::<P> is not instantiated, nothing runs
Rejected == [panicked |-> FALSE, val |-> [tag |-> "Rejected"], calls |-> <<>>]

SplitPair(l, r) ==
    IF l.panicked THEN Pure(l)
    ELSE IF r.panicked THEN Pure(r)
    ELSE [panicked |-> FALSE, val |-> <<l.val, r.val>>, calls |-> <<>>]
\* a slip in split: the right part built from [(); N] in place of [(); N - P]
SplitRightWhole(l, k) ==
    SplitPair(l, ArrayMap(Units(Len(l.env.a.data)), [kind |-> "split"], l.env))
SplitRight(l, k) == SplitPair(l, ArrayMap(Units(k), [kind |-> "split"], l.env))
SplitAt(self, P, rest) ==
    IF rest.overflow THEN Rejected
    ELSE SplitRight(ArrayMap(Units(P), [kind |-> "split"], [a |-> IntoIter(self)]), rest.val)
split(self, P) == SplitAt(self, P, ConstSub(Len(self), P))

(***************************************************************************)
(* Array::from_iter (the default build, without feature "nightly"), one    *)
(* step per loop iteration:                                                *)
(*     let mut arr = std::array::from_fn(|_| None);                        *)
(*     for item in &mut arr { *item = Some(iter.next()?); }                *)
(*     Some(arr.map(Option::unwrap))                                       *)
(***************************************************************************)
\* the iterators handed to from_iter: an array's items, or an unbounded range
Sources == {IntoIter(a) : a \in Arrays} \cup {RangeFrom(s) : s \in Values}

FromIterCall(n, src) ==
    /\ pc = "idle"
    /\ pc' = "from_iter"
    /\ op' = "from_iter"
    /\ args' = [n |-> n, iter |-> src]
    /\ ret' = NoValue
    /\ calls' = <<>>
    /\ panicked' = FALSE
    /\ iter' = src
    /\ slots' = ArrayFromFn(n, [kind |-> "none"], <<>>).val
    /\ idx' = 0
    /\ nexts' = 0

\* a slip in the loop: the `?` left out, so an exhausted iterator leaves the
\* slot empty and the loop goes on
FromIterLoopNoTry ==
    /\ pc = "from_iter"
    /\ idx < Len(slots)
    /\ LET nx == IterNext(iter)
       IN /\ iter' = nx.it
          /\ nexts' = nexts + 1
          /\ slots' = [slots EXCEPT ![idx + 1] = nx.item]
          /\ idx' = idx + 1
    /\ UNCHANGED <<op, args, calls, panicked, pc, ret>>

\* a slip in the loop: iter.zip(&mut arr) in place of the loop over the slots,
\* which asks the iterator for an item before it finds the slots used up
FromIterLoopZipIterFirst ==
    /\ pc = "from_iter"
    /\ idx < Len(slots)
    /\ LET nx == IterNext(iter)
           atEnd == idx + 1 = Len(slots)
       IN /\ iter' = IF IsSome(nx.item) /\ atEnd THEN IterNext(nx.it).it ELSE nx.it
          /\ nexts' = IF IsSome(nx.item) /\ atEnd THEN nexts + 2 ELSE nexts + 1
          /\ IF IsSome(nx.item)
             THEN /\ slots' = [slots EXCEPT ![idx + 1] = Some(nx.item.val)]
                  /\ idx' = idx + 1
                  /\ UNCHANGED <<pc, ret>>
             ELSE /\ pc' = "returned"
                  /\ ret' = None
                  /\ UNCHANGED <<slots, idx>>
    /\ UNCHANGED <<op, args, calls, panicked>>

\* one iteration of the for loop; `?` returns None from from_iter
FromIterLoop ==
    /\ pc = "from_iter"
    /\ idx < Len(slots)
    /\ LET nx == IterNext(iter)
       IN /\ iter' = nx.it
          /\ nexts' = nexts + 1
          /\ IF IsSome(nx.item)
             THEN /\ slots' = [slots EXCEPT ![idx + 1] = Some(nx.item.val)]
                  /\ idx' = idx + 1
                  /\ UNCHANGED <<pc, ret>>
             ELSE /\ pc' = "returned"
                  /\ ret' = None
                  /\ UNCHANGED <<slots, idx>>
    /\ UNCHANGED <<op, args, calls, panicked>>

\* the loop is over: Some(arr.map(Option::unwrap))
FromIterReturn ==
    /\ pc = "from_iter"
    /\ idx = Len(slots)
    /\ LET r == ArrayMap(slots, [kind |-> "unwrap"], <<>>)
       IN /\ panicked' = r.panicked
          /\ ret' = IF r.panicked THEN NoValue ELSE Some(r.val)
    /\ pc' = "returned"
    /\ UNCHANGED <<op, args, calls, iter, slots, idx, nexts>>

(***************************************************************************)
(* The calls.  Each action is one call of one method on arguments drawn    *)
(* from the bounded sets; it records the call and its outcome.             *)
(***************************************************************************)
Indexes == 0..(MaxLen + 1)

\* arrays of length n for the second to fifth argument of zip3_with .. zip5_with
Ramps(n) == {[i \in 1..n |-> (i + k) % (MaxVal + 1)] : k \in Values}

\* a method other than from_iter runs from call to return in one step
Record(name, a, r) ==
    /\ pc' = "returned"
    /\ op' = name
    /\ args' = a
    /\ ret' = r.val
    /\ calls' = r.calls
    /\ panicked' = r.panicked
    /\ UNCHANGED <<iter, slots, idx, nexts>>

CallLen ==
    /\ pc = "idle"
    /\ \E self \in Arrays : Record("len", [self |-> self], Pure(len(self)))

CallIsEmpty ==
    /\ pc = "idle"
    /\ \E self \in Arrays : Record("is_empty", [self |-> self], Pure(is_empty(self)))

CallFirst ==
    /\ pc = "idle"
    /\ \E self \in Arrays : Record("first", [self |-> self], Pure(first(self)))

CallFirstMut ==
    /\ pc = "idle"
    /\ \E self \in Arrays : Record("first_mut", [self |-> self], Pure(first_mut(self)))

CallLast ==
    /\ pc = "idle"
    /\ \E self \in Arrays : Record("last", [self |-> self], Pure(last(self)))

CallLastMut ==
    /\ pc = "idle"
    /\ \E self \in Arrays : Record("last_mut", [self |-> self], Pure(last_mut(self)))

CallGet ==
    /\ pc = "idle"
    /\ \E self \in Arrays, index \in Indexes :
           Record("get", [self |-> self, index |-> index], Pure(get(self, index)))

CallGetMut ==
    /\ pc = "idle"
    /\ \E self \in Arrays, index \in Indexes :
           Record("get_mut", [self |-> self, index |-> index], Pure(get_mut(self, index)))

CallAsSlice ==
    /\ pc = "idle"
    /\ \E self \in Arrays : Record("as_slice", [self |-> self], Pure(as_slice(self)))

CallAsMutSlice ==
    /\ pc = "idle"
    /\ \E self \in Arrays : Record("as_mut_slice", [self |-> self], Pure(as_mut_slice(self)))

CallMap ==
    /\ pc = "idle"
    /\ \E self \in Arrays, f \in Transforms :
           Record("map_", [self |-> self, f |-> f], map_(self, f))

CallFoldl ==
    /\ pc = "idle"
    /\ \E self \in Arrays, f \in Combines : \E acc \in Seeds(f) :
           Record("foldl", [self |-> self, acc |-> acc, f |-> f], foldl(self, acc, f))

CallFoldr ==
    /\ pc = "idle"
    /\ \E self \in Arrays, f \in Combines : \E acc \in Seeds(f) :
           Record("foldr", [self |-> self, acc |-> acc, f |-> f], foldr(self, acc, f))

CallResize ==
    /\ pc = "idle"
    /\ \E self \in Arrays, S \in Lens, elem \in Values :
           Record("resize", [self |-> self, S |-> S, elem |-> elem], resize(self, S, elem))

CallResizeWith ==
    /\ pc = "idle"
    /\ \E self \in Arrays, S \in Lens, f \in Generators :
           Record("resize_with", [self |-> self, S |-> S, f |-> f], resize_with(self, S, f))

CallZipWith ==
    /\ pc = "idle"
    /\ \E self \in Arrays, f \in Zippers : \E other \in ArraysOfLen(Len(self)) :
           Record("zip_with", [self |-> self, others |-> <<other>>, f |-> f],
           zip_with(self, other, f))

CallZip3With ==
    /\ pc = "idle"
    /\ \E self \in Arrays, f \in Zippers : \E o1, o2 \in Ramps(Len(self)) :
           Record("zip3_with", [self |-> self, others |-> <<o1, o2>>, f |-> f],
           zip3_with(self, o1, o2, f))

CallZip4With ==
    /\ pc = "idle"
    /\ \E self \in Arrays, f \in Zippers : \E o1, o2, o3 \in Ramps(Len(self)) :
           Record("zip4_with", [self |-> self, others |-> <<o1, o2, o3>>, f |-> f],
           zip4_with(self, o1, o2, o3, f))

CallZip5With ==
    /\ pc = "idle"
    /\ \E self \in Arrays, f \in Zippers : \E o1, o2, o3, o4 \in Ramps(Len(self)) :
           Record("zip5_with", [self |-> self, others |-> <<o1, o2, o3, o4>>, f |-> f],
           zip5_with(self, o1, o2, o3, o4, f))

CallSizedMap ==
    /\ pc = "idle"
    /\ \E self \in Arrays, f \in Transforms :
           Record("sized_map", [self |-> self, f |-> f], sized_map(self, f))

CallSizedZip ==
    /\ pc = "idle"
    /\ \E self \in Arrays, f \in Zippers : \E other \in ArraysOfLen(Len(self)) :
           Record("sized_zip", [self |-> self, others |-> <<other>>, f |-> f],
           sized_zip(self, other, f))

CallConcat ==
    /\ pc = "idle"
    /\ \E self \in Arrays, other \in Arrays :
           Record("concat", [self |-> self, other |-> other], concat(self, other))

CallSplit ==
    /\ pc = "idle"
    /\ \E self \in Arrays, P \in Lens :
           Record("split", [self |-> self, P |-> P], split(self, P))

CallFromIter == \E n \in Lens, src \in Sources : FromIterCall(n, src)

Init ==
    /\ op = "none"
    /\ args = [none |-> TRUE]
    /\ ret = NoValue
    /\ calls = <<>>
    /\ panicked = FALSE
    /\ pc = "idle"
    /\ iter = IntoIter(<<>>)
    /\ slots = <<>>
    /\ idx = 0
    /\ nexts = 0

Next ==
    \/ CallLen
    \/ CallIsEmpty
    \/ CallFirst
    \/ CallFirstMut
    \/ CallLast
    \/ CallLastMut
    \/ CallGet
    \/ CallGetMut
    \/ CallAsSlice
    \/ CallAsMutSlice
    \/ CallMap
    \/ CallFoldl
    \/ CallFoldr
    \/ CallResize
    \/ CallResizeWith
    \/ CallZipWith
    \/ CallZip3With
    \/ CallZip4With
    \/ CallZip5With
    \/ CallSizedMap
    \/ CallSizedZip
    \/ CallConcat
    \/ CallSplit
    \/ CallFromIter
    \/ FromIterLoop
    \/ FromIterReturn

Spec == Init /\ [][Next]_vars

\* The calls of from_iter alone.  Once called, from_iter runs to completion: it is
\* synchronous code, so its loop and its return are not starved.
FromIterNext ==
    \/ CallFromIter
    \/ FromIterLoop
    \/ FromIterReturn

FromIterSpec ==
    Init /\ [][FromIterNext]_vars /\ WF_vars(FromIterLoop) /\ WF_vars(FromIterReturn)

(***************************************************************************)
(* Properties.                                                             *)
(***************************************************************************)
Returned(name) == pc = "returned" /\ op = name

Reverse(s) == [i \in 1..Len(s) |-> s[Len(s) + 1 - i]]

\* C1: get(i) and get_mut(i) return None iff i >= N, for i < N they return the
\* element equal to as_slice()[i], and an out-of-range index never panics.
C1_GetReportsBoundsByOption ==
    (pc = "returned" /\ op \in {"get", "get_mut"}) =>
        LET self == args.self
            i == args.index
        IN /\ ~panicked
           /\ (ret.tag = "None") <=> (i >= Len(self))
           /\ i < Len(self) =>
                /\ ret.tag = "Some"
                /\ Deref(self, ret.val) = as_slice(self).val[i + 1]

\* get on a non-empty array with an index beyond its length has returned None
C1_Witness ==
    /\ Returned("get")
    /\ Len(args.self) > 0
    /\ args.index > Len(args.self)
    /\ ret = None

\* whether the iterator src yields at least k items, and its i-th item (from 1)
YieldsAtLeast(src, k) == src.kind = "range_from" \/ Len(src.data) >= k
Item(src, i) == IF src.kind = "range_from" THEN src.start + (i - 1) ELSE src.data[i]

\* C2: from_iter returns None iff the iterator yields fewer than N items, and
\* otherwise Some(arr) with arr[i] the (i+1)-th item yielded; on failure no
\* partially filled array is returned.
C2_FromIterResult ==
    Returned("from_iter") =>
        LET n == args.n
            src == args.iter
        IN /\ ~panicked
           /\ (ret = None) <=> ~YieldsAtLeast(src, n)
           /\ YieldsAtLeast(src, n) => ret = Some([i \in 1..n |-> Item(src, i)])

\* from_iter has given up on an iterator that yielded some items, but too few
C2_Witness ==
    /\ Returned("from_iter")
    /\ args.iter.kind = "into_iter"
    /\ Len(args.iter.data) > 0
    /\ Len(args.iter.data) < args.n
    /\ ret = None

\* what C3 says of every state of a from_iter call
C3_DrawsState ==
    op = "from_iter" =>
        LET n == args.n
            src == args.iter
        IN /\ nexts <= n
           /\ (pc = "returned" /\ YieldsAtLeast(src, n)) =>
                /\ nexts = n
                /\ IterNext(iter).item =
                      IF YieldsAtLeast(src, n + 1) THEN Some(Item(src, n + 1)) ELSE None
                /\ n = 0 => ret = Some(<<>>)

\* C3: when the iterator yields at least N items, from_iter calls next() exactly N
\* times and leaves the (N+1)-th item unconsumed (for N = 0 it returns Some of the
\* empty array without calling next()), and every call of from_iter returns, also
\* on an iterator that never ends.
C3_FromIterDrawsExactlyN ==
    /\ []C3_DrawsState
    /\ (pc = "from_iter") ~> (pc = "returned")

\* from_iter has filled the longest array from a range that never ends
C3_Witness ==
    /\ Returned("from_iter")
    /\ args.iter.kind = "range_from"
    /\ args.n = MaxLen
    /\ nexts = MaxLen
    /\ ret.tag = "Some"

\* C4: resize::<S>(x) returns r of length S with r[i] = arr[i] for i < min(N, S)
\* and r[i] = x for N <= i < S; S = N returns arr unchanged.
C4_ResizeKeepsThenFills ==
    Returned("resize") =>
        LET self == args.self
            n == Len(args.self)
        IN /\ ~panicked
           /\ Len(ret) = args.S
           /\ \A i \in 1..args.S : ret[i] = IF i <= n THEN self[i] ELSE args.elem
           /\ args.S >= n => ret = self \o [i \in 1..(args.S - n) |-> args.elem]
           /\ args.S < n => ret = SubSeq(self, 1, args.S)
           /\ args.S = n => ret = self

\* resize has grown a non-empty array by two elements
C4_Witness ==
    /\ Returned("resize")
    /\ Len(args.self) > 0
    /\ args.S = Len(args.self) + 2
    /\ ret[args.S] = args.elem
    /\ ret[1] = args.self[1]

\* C5: resize_with::<S>(f) returns r with r[i] = arr[i] for i < min(N, S) and
\* r[i] = f(i) for N <= i < S, f receiving the position i in the new array; f is
\* called once for each i in N..S-1 in ascending order, and never when S <= N.
C5_ResizeWithCallsGenerator ==
    Returned("resize_with") =>
        LET self == args.self
            n == Len(args.self)
        IN /\ ~panicked
           /\ Len(ret) = args.S
           /\ \A i \in 0..(args.S - 1) :
                ret[i + 1] = IF i < n THEN self[i + 1] ELSE Generate(args.f, i)
           /\ calls = [j \in 1..(IF args.S > n THEN args.S - n ELSE 0) |-> <<n + j - 1>>]
           /\ args.S <= n => calls = <<>>

\* resize_with has grown a non-empty array by two generated elements
C5_Witness ==
    /\ Returned("resize_with")
    /\ Len(args.self) > 0
    /\ args.S = Len(args.self) + 2
    /\ Len(calls) = 2

\* the fold of combine over the sequence s from its head, as a definition
RECURSIVE FoldSeq(_, _, _)
FoldSeq(f, acc, s) == IF s = <<>> THEN acc ELSE FoldSeq(f, Combine(f, acc, Head(s)), Tail(s))

\* C6: foldl combines the elements in ascending index order, foldr in descending
\* index order, so foldr on arr equals foldl on the reversed arr; on the empty array
\* both return the seed without calling combine.
C6_FoldOrder ==
    (pc = "returned" /\ op \in {"foldl", "foldr"}) =>
        LET self == args.self
            n == Len(args.self)
            order == IF op = "foldl" THEN self ELSE Reverse(self)
        IN /\ ~panicked
           /\ Len(calls) = n
           /\ \A j \in 1..n : calls[j][2] = order[j]
           /\ n > 0 => calls[1][1] = args.acc
           /\ \A j \in 1..(n - 1) : calls[j + 1][1] = Combine(args.f, calls[j][1], calls[j][2])
           /\ ret = FoldSeq(args.f, args.acc, order)
           /\ op = "foldr" => ret = foldl(Reverse(self), args.acc, args.f).val
           /\ n = 0 => (ret = args.acc /\ calls = <<>>)

\* foldr with the order-sensitive push has folded an array that is not a palindrome
C6_Witness ==
    /\ Returned("foldr")
    /\ args.f = "push"
    /\ Len(args.self) = MaxLen
    /\ args.self # Reverse(args.self)
    /\ ret = args.acc \o Reverse(args.self)

\* the i-th elements of self and of the other arrays, as the closure's arguments
Paired(self, others, i) == <<self[i]>> \o [k \in 1..Len(others) |-> others[k][i]]

ZipOps == {"zip_with", "zip3_with", "zip4_with", "zip5_with", "sized_zip"}

\* C7: zip_with(a, b, f) returns r of length N with r[i] = f(a[i], b[i]), f being
\* called N times in ascending index order; zip3_with, zip4_with and zip5_with
\* likewise pair the i-th elements of all their input arrays.
C7_ZipPairsByIndex ==
    (pc = "returned" /\ op \in ZipOps) =>
        LET self == args.self
            n == Len(args.self)
        IN /\ ~panicked
           /\ Len(args.others) =
                (CASE op = "zip3_with" -> 2 [] op = "zip4_with" -> 3
                   [] op = "zip5_with" -> 4 [] OTHER -> 1)
           /\ Len(ret) = n
           /\ \A i \in 1..n : ret[i] = Zipper(args.f, Paired(self, args.others, i))
           /\ calls = [i \in 1..n |-> Paired(self, args.others, i)]

\* zip_with has paired two arrays that are neither equal nor palindromes
C7_Witness ==
    /\ Returned("zip_with")
    /\ args.f = "tuple"
    /\ Len(args.self) = MaxLen
    /\ args.others[1] # Reverse(args.others[1])
    /\ args.others[1] # args.self
    /\ ret[MaxLen] = <<args.self[MaxLen], args.others[1][MaxLen]>>

\* C8: map_(f) returns r of length N with r[i] = f(arr[i]), f applied once per
\* element in index order with no short-circuiting; map_(identity) returns arr.
C8_MapEveryElementInOrder ==
    Returned("map_") =>
        LET self == args.self
            n == Len(args.self)
        IN /\ ~panicked
           /\ Len(ret) = n
           /\ \A i \in 1..n : ret[i] = args.f[self[i]]
           /\ calls = [i \in 1..n |-> <<self[i]>>]
           /\ args.f = Identity => ret = self

\* map_ has applied a transform that is not the identity to an array that is not
\* a palindrome
C8_Witness ==
    /\ Returned("map_")
    /\ Len(args.self) = MaxLen
    /\ args.self # Reverse(args.self)
    /\ args.f # Identity
    /\ ret # args.self
    /\ Len(calls) = MaxLen

\* C9: len() = N, is_empty() = (N = 0); first, first_mut, last, last_mut return
\* None iff N = 0, otherwise first/first_mut refer to index 0 and last/last_mut to
\* index N-1 (the same element when N = 1).
C9_LenAndEnds ==
    pc = "returned" =>
        /\ op = "len" => ret = Len(args.self)
        /\ op = "is_empty" => ret = (Len(args.self) = 0)
        /\ op \in {"first", "first_mut", "last", "last_mut"} =>
             LET n == Len(args.self)
                 want == IF op \in {"first", "first_mut"} THEN 0 ELSE n - 1
             IN /\ ~panicked
                /\ (ret.tag = "None") <=> (n = 0)
                /\ n > 0 =>
                     /\ ret.tag = "Some"
                     /\ ret.val = Ref(want)
                     /\ Deref(args.self, ret.val) = args.self[want + 1]
                /\ (n = 1 /\ op \in {"last", "last_mut"}) => ret = first(args.self).val

\* last on an array of the longest length refers to its last slot
C9_Witness ==
    /\ Returned("last")
    /\ Len(args.self) = MaxLen
    /\ ret = Some(Ref(MaxLen - 1))

\* C10: concat(a, b) has length N+M, the elements of a followed by those of b;
\* split::<P>(a), P <= N, returns (the first P elements, the other N-P elements),
\* so splitting concat(a, b) at N returns (a, b); P > N is rejected and produces
\* no result.
C10_ConcatSplit ==
    /\ Returned("concat") =>
         LET a == args.self
             b == args.other
         IN /\ ~panicked
            /\ Len(ret) = Len(a) + Len(b)
            /\ ret = a \o b
            /\ b = <<>> => ret = a
            /\ a = <<>> => ret = b
            /\ split(ret, Len(a)) = [panicked |-> FALSE, val |-> <<a, b>>, calls |-> <<>>]
    /\ Returned("split") =>
         LET a == args.self
             n == Len(args.self)
             P == args.P
         IN /\ ~panicked
            /\ P <= n =>
                 /\ ret = <<SubSeq(a, 1, P), SubSeq(a, P + 1, n)>>
                 /\ Len(ret[1]) = P /\ Len(ret[2]) = n - P
                 /\ ret[1] \o ret[2] = a
            /\ P > n => ret = Rejected.val

\* concat has joined two non-empty arrays that differ
C10_Witness ==
    /\ Returned("concat")
    /\ Len(args.self) > 0
    /\ Len(args.other) > 0
    /\ args.self # args.other
    /\ Len(ret) = Len(args.self) + Len(args.other)

\* the methods with an unwrap() of their own
UnwrapOps ==
    {"zip_with", "zip3_with", "zip4_with", "zip5_with", "resize", "resize_with",
     "concat", "split", "from_iter"}

\* C11: no library operation panics on its own: in the zips, resize_with, concat,
\* split and from_iter every unwrap() of an iterator's next() or of a filled
\* Option slot meets a Some, for all array lengths (0 included) and all target
\* lengths, the caller's closure not panicking.
C11_NoUnwrapOfNone ==
    op \in UnwrapOps =>
        /\ ~panicked
        /\ (pc = "from_iter" /\ idx = Len(slots)) =>
             \A i \in 1..Len(slots) : Unwrap(slots[i]) = Ok(Item(args.iter, i))

\* split has unwrapped every item of the longest array into two non-empty parts
C11_Witness ==
    /\ Returned("split")
    /\ Len(args.self) = MaxLen
    /\ args.P > 0
    /\ args.P < MaxLen
    /\ ~panicked
    /\ Len(ret[1]) + Len(ret[2]) = MaxLen

====
